---- MODULE Spec2Model ----
(***************************************************************************)
(* Attendance backend (src/server.js): the Credential Store (teachers),    *)
(* the Roster Store (students), the Attendance Ledger (one document per    *)
(* (date, className), unique index) and the Report Engine                  *)
(* (GET /reports/summary).                                                 *)
(*                                                                         *)
(* Every handler is async: it runs up to an await, the store runs the      *)
(* command, and the handler goes on in a later turn of the event loop.     *)
(* A command on several documents (an upsert: query then insert; a         *)
(* bulkWrite; deleteMany; insertMany; find then populate) is not one       *)
(* transaction.  Each action below is one such step of one request p, so   *)
(* that the steps of two requests in flight interleave.                    *)
(*                                                                         *)
(* Encoding of JavaScript values:                                          *)
(*   - a date is the sequence of its characters; "" is <<>>.  MongoDB      *)
(*     compares strings character by character, a proper prefix first;     *)
(*   - a studentId is an integer: 0 is a missing / falsy value, -1 is a    *)
(*     truthy value mongoose cannot cast to an ObjectId, n >= 1 is the     *)
(*     ObjectId of the n-th student document ever inserted (whether or not *)
(*     that document exists);                                              *)
(*   - a present flag is the text of the JSON value: "true" and "false"    *)
(*     are the two booleans, anything else is a value of another type;     *)
(*   - the entries of a request body are a kind ("falsy": absent, null,    *)
(*     0, "", false; "array"; "notIterable": an object, a number, true)    *)
(*     and, for an array, the sequence of its elements, each an object or  *)
(*     Null;                                                               *)
(*   - an Authorization header is the sequence of the pieces split(" ")    *)
(*     cuts it into: <<>> is an absent header, <<"">> the empty string,    *)
(*     <<"Bearer", "good">> the text "Bearer good"; a token is known by    *)
(*     its text ("good": signed with JWT_SECRET and not expired,           *)
(*     "expired": signed and past its exp, anything else: not signed);     *)
(*   - a collection is the sequence of the documents ever inserted, in     *)
(*     insertion order, the position of a document being its _id; a        *)
(*     document that was deleted leaves Deleted at its position;           *)
(*   - the average is kept in tenths of a percent (667 is 66.7); the       *)
(*     division and the product that give it are rounded as binary64       *)
(*     rounds them.                                                        *)
(***************************************************************************)
EXTENDS Integers, Sequences, FiniteSets, TLC

MaxEntries == 2
MaxRaceEntries == 1
MaxRecords == 2
MaxStudents == 2
MaxDays == 4
MaxTeachers == 2
MaxTotal == 80

Procs == {1, 2}

Undefined == "<undefined>"
MissingId == 0
UncastableId == -1
Null == [null |-> TRUE]
Deleted == [deleted |-> TRUE]

NoReq == [op |-> "none"]
NoResp == [status |-> 0]

VARIABLES teachers, students, ledger, pc, req, resp

vars == <<teachers, students, ledger, pc, req, resp>>

(***************************************************************************)
(* Helpers                                                                 *)
(***************************************************************************)
SeqsUpTo(S, n) == UNION {[1..k -> S] : k \in 0..n}

\* the _ids of the documents a collection holds
Live(coll) == {i \in DOMAIN coll : coll[i] # Deleted}

RECURSIVE StrLE(_, _)
\* a <= b in the order MongoDB gives strings ($gte / $lte of the summary query)
StrLE(a, b) ==
  IF a = <<>> THEN TRUE
  ELSE IF b = <<>> THEN FALSE
  ELSE IF Head(a) # Head(b) THEN Head(a) < Head(b)
  ELSE StrLE(Tail(a), Tail(b))

Ok(id) == [status |-> 200, message |-> "Attendance saved successfully", attendanceId |-> id]
Err(status, message) == [status |-> status, message |-> message]
\* the 500 answers echo err.message
Err500(message, error) == [status |-> 500, message |-> message, error |-> error]

\* the tokens whose signature was made with JWT_SECRET, and those of them
\* whose exp has passed
JwtSigned == {"good", "expired"}
JwtExpired == {"expired"}

\* jwt.verify(token, JWT_SECRET): TRUE when it returns, FALSE when it throws
JwtVerify(token) == token \in JwtSigned /\ token \notin JwtExpired

\* authHeader.split(" ")[1]
TokenOf(authHeader) == IF Len(authHeader) >= 2 THEN authHeader[2] ELSE Undefined

AuthUnverified(authHeader) ==
  IF authHeader \in {<<>>, <<"">>}
    THEN Err(401, "No authorization header provided")
  ELSE IF TokenOf(authHeader) \in {Undefined, ""} THEN Err(401, "No token provided")
  ELSE NoResp

\* auth middleware: NoResp stands for next(), otherwise the answer it sends
auth(authHeader) ==
  IF authHeader \in {<<>>, <<"">>}
    THEN Err(401, "No authorization header provided")
  ELSE IF TokenOf(authHeader) \in {Undefined, ""} THEN Err(401, "No token provided")
  ELSE IF ~JwtVerify(TokenOf(authHeader)) THEN Err(401, "Invalid or expired token")
  ELSE NoResp

TypeofBoolean(v) == v \in {"true", "false"}

\* the test of the validation loop of POST /attendance/mark, negated
ValidEntry(entry) ==
  ~(entry.studentId = MissingId \/ ~TypeofBoolean(entry.present))

RECURSIVE ValidationLoop(_)
\* for (let entry of entries): "ok" when the loop ends, "invalid" at the
\* first element that fails the test, "throws" at a null element, whose
\* studentId cannot be read
ValidationLoop(entries) ==
  IF entries = <<>> THEN "ok"
  ELSE IF Head(entries) = Null THEN "throws"
  ELSE IF ~ValidEntry(Head(entries)) THEN "invalid"
  ELSE ValidationLoop(Tail(entries))

\* mongoose casts entries.studentId to ObjectId, or fails with a CastError
CastFails(entries) == \E i \in DOMAIN entries : entries[i].studentId = UncastableId

\* an entry as stored: the entries sub-schema with its casts and defaults
CastEntry(entry) ==
  [studentId |-> entry.studentId,
   present |-> (entry.present = "true"),
   remarks |-> IF entry.remarks = Undefined THEN "" ELSE entry.remarks]

CastEntries(entries) == [i \in DOMAIN entries |-> CastEntry(entries[i])]

\* the documents the filter { date, className } matches
Matching(led, date, className) ==
  {i \in Live(led) : led[i].date = date /\ led[i].className = className}

FirstOf(S) == CHOOSE i \in S : \A j \in S : i <= j

NoUniqueIndex(led, doc) == TRUE

\* the unique index on { date, className }: may doc be inserted?
UniqueIndexAllows(led, doc) == Matching(led, doc.date, doc.className) = {}

MergeUpdate(old, doc) ==
  [date |-> doc.date, className |-> doc.className, entries |-> old.entries \o doc.entries]

\* the update { date, className, entries } applied to a matched document
ApplyUpdate(old, doc) ==
  [date |-> doc.date, className |-> doc.className, entries |-> doc.entries]

\* what POST /attendance/mark answers before it reaches the store, NoResp
\* when it reaches it; what the loop throws is caught by the handler's catch
MarkRejects(authHeader, date, className, kind, entries) ==
  IF auth(authHeader) # NoResp THEN auth(authHeader)
  ELSE IF date = <<>> \/ className = "" \/ kind = "falsy"
    THEN Err(400, "Date, className and entries are required")
  ELSE IF kind = "notIterable"
    THEN Err500("Failed to mark attendance", "entries is not iterable")
  ELSE IF ValidationLoop(entries) = "throws"
    THEN Err500("Failed to mark attendance", "Cannot read properties of null")
  ELSE IF ValidationLoop(entries) = "invalid" THEN Err(400, "Invalid entry format")
  ELSE IF CastFails(entries) THEN Err500("Failed to mark attendance", "CastError")
  ELSE NoResp

(***************************************************************************)
(* POST /auth/register-teacher                                             *)
(***************************************************************************)
DuplicateEmail == Err(400, "Teacher with this email already exists")

\* Teacher.findOne({ email })
TeacherWithEmail(tchs, email) == {i \in Live(tchs) : tchs[i].email = email}

\* the unique index the schema declares on email: may a teacher with this
\* email be inserted?
EmailIndexAllows(tchs, email) == TeacherWithEmail(tchs, email) = {}

\* bcrypt.hash(password, 12): the stored text is not the password
Hash(password) == <<"bcrypt", password>>

\* the handler up to the await that follows the existence check
RegisterRequest(p, name, email, password) ==
  /\ pc[p] = "idle"
  /\ req' = [req EXCEPT ![p] =
               [op |-> "register", name |-> name, email |-> email, password |-> password]]
  /\ IF name \in {Undefined, ""} \/ email \in {Undefined, ""} \/ password \in {Undefined, ""}
       THEN /\ resp' = [resp EXCEPT ![p] = Err(400, "Name, email and password are required")]
            /\ pc' = pc
     ELSE IF TeacherWithEmail(teachers, email) # {}
       THEN /\ resp' = [resp EXCEPT ![p] = DuplicateEmail]
            /\ pc' = pc
     ELSE /\ resp' = [resp EXCEPT ![p] = NoResp]
          /\ pc' = [pc EXCEPT ![p] = "create"]
  /\ UNCHANGED <<teachers, students, ledger>>

RegisterCatchSurfaces(code) == Err500("Registration failed", "E11000 duplicate key")

\* the catch block of the handler, on an error of the store with this code
RegisterCatch(code) ==
  IF code = 11000 THEN DuplicateEmail
  ELSE Err500("Registration failed", "store error")

\* bcrypt.hash, then Teacher.create({ name, email, password: hashed }), which
\* the unique index may refuse with error 11000, then the answer
TeacherCreate(p) ==
  /\ pc[p] = "create"
  /\ IF EmailIndexAllows(teachers, req[p].email)
       THEN /\ teachers' = Append(teachers,
                               [name |-> req[p].name, email |-> req[p].email,
                                password |-> Hash(req[p].password)])
            /\ resp' = [resp EXCEPT ![p] =
                          [status |-> 201, message |-> "Teacher registered successfully",
                           teacher |-> [id |-> Len(teachers) + 1, name |-> req[p].name,
                                        email |-> req[p].email]]]
       ELSE /\ teachers' = teachers
            /\ resp' = [resp EXCEPT ![p] = RegisterCatch(11000)]
  /\ pc' = [pc EXCEPT ![p] = "idle"]
  /\ UNCHANGED <<req, students, ledger>>

(***************************************************************************)
(* POST /attendance/mark                                                   *)
(***************************************************************************)
\* the handler up to its await: auth, the required fields, the validation
\* loop, then the cast of the update by findOneAndUpdate
MarkRequest(p, authHeader, date, className, kind, entries) ==
  /\ pc[p] = "idle"
  /\ LET rej == MarkRejects(authHeader, date, className, kind, entries) IN
       IF rej # NoResp
         THEN /\ resp' = [resp EXCEPT ![p] = rej]
              /\ req' = [req EXCEPT ![p] = NoReq]
              /\ pc' = pc
         ELSE /\ req' = [req EXCEPT ![p] =
                           [op |-> "mark", date |-> date, className |-> className,
                            entries |-> CastEntries(entries), retries |-> 0]]
              /\ resp' = [resp EXCEPT ![p] = NoResp]
              /\ pc' = [pc EXCEPT ![p] = "find"]
  /\ UNCHANGED <<teachers, students, ledger>>

\* findOneAndUpdate, query phase: a matched document is updated in place
StoreFind(p) ==
  /\ pc[p] = "find"
  /\ LET m == Matching(ledger, req[p].date, req[p].className) IN
       IF m # {}
         THEN /\ ledger' = [ledger EXCEPT ![FirstOf(m)] = ApplyUpdate(@, req[p])]
              /\ resp' = [resp EXCEPT ![p] = Ok(FirstOf(m))]
              /\ pc' = [pc EXCEPT ![p] = "idle"]
              /\ req' = req
         ELSE /\ pc' = [pc EXCEPT ![p] = "insert"]
              /\ UNCHANGED <<ledger, resp, req>>
  /\ UNCHANGED <<teachers, students>>

\* an upsert whose insert the unique index refuses. The handler makes the one
\* store call of line 250 and never calls again; what becomes of the refused
\* insert is the database server's doing, and nothing in the repository fixes
\* which server that is: either the server runs the operation again by itself
\* (it then meets the record that won), or the duplicate-key error comes back
\* through the driver, findOneAndUpdate rejects and the catch block answers
\* 500
OnDuplicateKey(request) ==
  {[pc |-> "find", req |-> [request EXCEPT !.retries = @ + 1], resp |-> NoResp],
   [pc |-> "idle", req |-> request,
    resp |-> Err500("Failed to mark attendance", "E11000 duplicate key")]}

\* findOneAndUpdate, upsert phase: the insert, which the unique index may
\* refuse
StoreInsert(p) ==
  /\ pc[p] = "insert"
  /\ IF UniqueIndexAllows(ledger, req[p])
       THEN /\ ledger' = Append(ledger, ApplyUpdate(req[p], req[p]))
            /\ resp' = [resp EXCEPT ![p] = Ok(Len(ledger) + 1)]
            /\ pc' = [pc EXCEPT ![p] = "idle"]
            /\ req' = req
       ELSE \E out \in OnDuplicateKey(req[p]) :
            /\ pc' = [pc EXCEPT ![p] = out.pc]
            /\ req' = [req EXCEPT ![p] = out.req]
            /\ resp' = [resp EXCEPT ![p] = out.resp]
            /\ ledger' = ledger
  /\ UNCHANGED <<teachers, students>>

Init ==
  /\ teachers = <<>>
  /\ students = <<>>
  /\ ledger = <<>>
  /\ pc = [p \in Procs |-> "idle"]
  /\ req = [p \in Procs |-> NoReq]
  /\ resp = [p \in Procs |-> NoResp]

(***************************************************************************)
(* POST /students: the store runs the updateOne operations of one          *)
(* bulkWrite in order, each one a query phase and, when nothing matched,   *)
(* an insert                                                               *)
(***************************************************************************)
SavedStudents(modified, upserted) ==
  [status |-> 200, message |-> "Students saved successfully",
   modifiedCount |-> modified, upsertedCount |-> upserted]

\* the documents the filter { className, roll } matches
StudentMatching(studs, s) ==
  {i \in Live(studs) : studs[i].className = s.className /\ studs[i].roll = s.roll}

\* the handler up to its await
StudentsRequest(p, authHeader, isArray, batch) ==
  /\ pc[p] = "idle"
  /\ IF auth(authHeader) # NoResp
       THEN /\ resp' = [resp EXCEPT ![p] = auth(authHeader)]
            /\ req' = [req EXCEPT ![p] = NoReq]
            /\ pc' = pc
     ELSE IF ~isArray
       THEN /\ resp' = [resp EXCEPT ![p] = Err(400, "Students array is required")]
            /\ req' = [req EXCEPT ![p] = NoReq]
            /\ pc' = pc
     ELSE IF batch = <<>>
       THEN /\ resp' = [resp EXCEPT ![p] = SavedStudents(0, 0)]
            /\ req' = [req EXCEPT ![p] = NoReq]
            /\ pc' = pc
     ELSE /\ req' = [req EXCEPT ![p] =
                       [op |-> "students", ops |-> batch, modifiedCount |-> 0,
                        upsertedCount |-> 0]]
          /\ resp' = [resp EXCEPT ![p] = NoResp]
          /\ pc' = [pc EXCEPT ![p] = "upsertFind"]
  /\ UNCHANGED <<teachers, students, ledger>>

\* the first operation of p's bulkWrite is done: on to the next one, or the
\* answer
UpsertDone(p, modified, upserted) ==
  LET rest == Tail(req[p].ops) IN
    /\ req' = [req EXCEPT ![p] = [@ EXCEPT !.ops = rest, !.modifiedCount = modified,
                                            !.upsertedCount = upserted]]
    /\ pc' = [pc EXCEPT ![p] = IF rest = <<>> THEN "idle" ELSE "upsertFind"]
    /\ resp' = IF rest = <<>> THEN [resp EXCEPT ![p] = SavedStudents(modified, upserted)]
                               ELSE resp

\* updateOne, query phase: a matched student is updated in place
UpsertFind(p) ==
  /\ pc[p] = "upsertFind"
  /\ LET s == Head(req[p].ops)
         m == StudentMatching(students, s)
     IN IF m # {}
          THEN /\ students' = [students EXCEPT ![FirstOf(m)] = s]
               /\ UpsertDone(p, IF students[FirstOf(m)] = s THEN req[p].modifiedCount
                                                             ELSE req[p].modifiedCount + 1,
                             req[p].upsertedCount)
          ELSE /\ pc' = [pc EXCEPT ![p] = "upsertInsert"]
               /\ UNCHANGED <<students, req, resp>>
  /\ UNCHANGED <<teachers, ledger>>

\* updateOne, upsert phase: the insert; studentSchema declares no unique
\* index, so the store refuses none
UpsertInsert(p) ==
  /\ pc[p] = "upsertInsert"
  /\ students' = Append(students, Head(req[p].ops))
  /\ UpsertDone(p, req[p].modifiedCount, req[p].upsertedCount + 1)
  /\ UNCHANGED <<teachers, ledger>>

(***************************************************************************)
(* GET /students                                                           *)
(***************************************************************************)
\* Student.find(query), query being { className } or, when className is
\* absent or empty, {}; each document with its _id
FindStudents(studs, className) ==
  LET all == [i \in DOMAIN studs |->
                IF studs[i] = Deleted THEN Deleted
                ELSE [id |-> i, className |-> studs[i].className, roll |-> studs[i].roll,
                      name |-> studs[i].name]]
      Selected(doc) ==
        doc # Deleted /\ (className \in {Undefined, ""} \/ doc.className = className)
  IN SelectSeq(all, Selected)

\* .sort({ roll: 1 }): the orders of found that ascend in roll (the store
\* promises no order among documents of equal roll)
SortByRoll(found) ==
  {out \in {[i \in DOMAIN found |-> found[f[i]]] : f \in Permutations(DOMAIN found)} :
     \A i \in DOMAIN out : \A j \in DOMAIN out : i < j => out[i].roll <= out[j].roll}

\* one query, and the answer that carries its result
GetStudents(p, authHeader, className) ==
  /\ pc[p] = "idle"
  /\ IF auth(authHeader) # NoResp
       THEN resp' = [resp EXCEPT ![p] = auth(authHeader)]
       ELSE \E out \in SortByRoll(FindStudents(students, className)) :
              resp' = [resp EXCEPT ![p] = [status |-> 200, students |-> out]]
  /\ req' = [req EXCEPT ![p] = NoReq]
  /\ UNCHANGED <<teachers, students, ledger, pc>>

(***************************************************************************)
(* GET /reports/summary: Attendance.find(...).populate("entries.studentId")*)
(* is a query on the ledger and then a query on the roster                 *)
(***************************************************************************)
FindRecordsExclusive(led, className, from, to) ==
  LET Selected(rec) ==
        /\ rec # Deleted
        /\ rec.className = className /\ StrLE(from, rec.date) /\ StrLE(rec.date, to)
        /\ rec.date # to
  IN SelectSeq(led, Selected)

\* Attendance.find({ className, date: { $gte: from, $lte: to } })
FindRecords(led, className, from, to) ==
  LET Selected(rec) ==
        /\ rec # Deleted
        /\ rec.className = className /\ StrLE(from, rec.date) /\ StrLE(rec.date, to)
  IN SelectSeq(led, Selected)

\* the handler up to the query on the ledger
SummaryRequest(p, authHeader, className, from, to) ==
  /\ pc[p] = "idle"
  /\ IF auth(authHeader) # NoResp
       THEN /\ resp' = [resp EXCEPT ![p] = auth(authHeader)]
            /\ req' = [req EXCEPT ![p] = NoReq]
            /\ pc' = pc
     ELSE IF className = "" \/ from = <<>> \/ to = <<>>
       THEN /\ resp' = [resp EXCEPT ![p] = Err(400, "className, from and to dates are required")]
            /\ req' = [req EXCEPT ![p] = NoReq]
            /\ pc' = pc
     ELSE /\ req' = [req EXCEPT ![p] =
                       [op |-> "summary", className |-> className, from |-> from, to |-> to,
                        records |-> FindRecords(ledger, className, from, to)]]
          /\ resp' = [resp EXCEPT ![p] = NoResp]
          /\ pc' = [pc EXCEPT ![p] = "populate"]
  /\ UNCHANGED <<teachers, students, ledger>>

\* populate("entries.studentId"): the student document, or null (0) when no
\* student has that _id
Populate(studs, entry) ==
  [studentId |-> IF entry.studentId \in Live(studs) THEN entry.studentId ELSE 0,
   present |-> entry.present]

RECURSIVE PopulatedEntries(_, _)
\* the entries the two nested forEach visit, in order
PopulatedEntries(studs, records) ==
  IF records = <<>> THEN <<>>
  ELSE [i \in DOMAIN Head(records).entries |-> Populate(studs, Head(records).entries[i])]
         \o PopulatedEntries(studs, Tail(records))

RECURSIVE Accumulate(_, _)
\* studentStats after the entries es, starting from stats
Accumulate(stats, es) ==
  IF es = <<>> THEN stats
  ELSE LET e == Head(es)
           s0 == IF e.studentId \in DOMAIN stats THEN stats
                 ELSE stats @@ (e.studentId :> [present |-> 0, total |-> 0])
           s1 == [s0 EXCEPT ![e.studentId] =
                    [present |-> IF e.present THEN @.present + 1 ELSE @.present,
                     total |-> @.total + 1]]
       IN Accumulate(s1, Tail(es))

RECURSIVE SumPresent(_, _)
SumPresent(stats, keys) ==
  IF keys = {} THEN 0
  ELSE LET k == CHOOSE x \in keys : TRUE
       IN stats[k].present + SumPresent(stats, keys \ {k})

RECURSIVE SumTotal(_, _)
SumTotal(stats, keys) ==
  IF keys = {} THEN 0
  ELSE LET k == CHOOSE x \in keys : TRUE
       IN stats[k].total + SumTotal(stats, keys \ {k})

ToFixed1Down(P, T) == (1000 * P) \div T

(***************************************************************************)
(* JavaScript numbers are IEEE 754 binary64.  A positive one is kept as    *)
(* its significand of SignificandBits bits, written as a 1 followed by     *)
(* four digits of DigitBits bits each, and exp, the power of two of that   *)
(* leading 1: the number is significand * 2^(exp - 52).                    *)
(***************************************************************************)
SignificandBits == 53

DigitBits == 13

RECURSIVE TwoToThe(_)
TwoToThe(n) == IF n = 0 THEN 1 ELSE 2 * TwoToThe(n - 1)

Base == TwoToThe(DigitBits)

RECURSIVE BitLength(_)
\* the number of bits that write n
BitLength(n) == IF n = 0 THEN 0 ELSE 1 + BitLength(n \div 2)

\* the significand plus 1
Increment(significand) ==
  LET open == {i \in DOMAIN significand : significand[i] < Base - 1}
      last == CHOOSE i \in open : \A j \in open : j <= i
  IN [i \in DOMAIN significand |->
        IF i < last THEN significand[i] ELSE IF i = last THEN significand[i] + 1 ELSE 0]

\* the number of this significand and exponent, rounded up or not; a
\* significand that reaches 2^53 is 2^52 with the next exponent
Rounded(kept, exp, up) ==
  IF ~up THEN [digits |-> kept, exp |-> exp]
  ELSE LET inc == Increment(kept) IN
         IF inc[1] = 2
           THEN [digits |-> [i \in DOMAIN kept |-> IF i = 1 THEN 1 ELSE 0], exp |-> exp + 1]
           ELSE [digits |-> inc, exp |-> exp]

RECURSIVE Normalized(_, _, _)
\* r / T = (r' / T) * 2^exp with T <= r' < 2T
Normalized(r, T, exp) ==
  IF r >= T THEN [r |-> r, exp |-> exp] ELSE Normalized(2 * r, T, exp - 1)

RECURSIVE QuotientDigits(_, _, _)
\* the first n digits of rem / T after the point, for rem < T, and what is
\* left: the rest of the quotient is left / T of the last digit
QuotientDigits(rem, T, n) ==
  IF n = 0 THEN [digits |-> <<>>, left |-> rem]
  ELSE LET rest == QuotientDigits((rem * Base) % T, T, n - 1)
       IN [digits |-> <<(rem * Base) \div T>> \o rest.digits, left |-> rest.left]

\* P / T for 0 < P <= T: the quotient rounded to the nearest number, to the
\* even significand on a tie
DoubleDivide(P, T) ==
  LET norm == Normalized(P, T, 0)
      q == QuotientDigits(norm.r - T, T, (SignificandBits - 1) \div DigitBits)
      quotient == <<1>> \o q.digits
      up == 2 * q.left > T \/ (2 * q.left = T /\ quotient[Len(quotient)] % 2 = 1)
  IN Rounded(quotient, norm.exp, up)

RECURSIVE TimesFrom(_, _, _, _)
\* c times the integer the first i digits of factor write, plus carry: i
\* digits, the first one as large as it gets
TimesFrom(factor, i, c, carry) ==
  LET v == factor[i] * c + carry IN
    IF i = 1 THEN <<v>> ELSE TimesFrom(factor, i - 1, c, v \div Base) \o <<v % Base>>

\* x * c for an integer c with 1 <= c < Base: the product rounded to the
\* nearest number, to the even significand on a tie
DoubleTimes(x, c) ==
  LET prod == TimesFrom(x.digits, Len(x.digits), c, 0)
      drop == BitLength(prod[1]) - 1
      kept == [i \in DOMAIN prod |->
                 IF i = 1 THEN prod[1] \div TwoToThe(drop)
                 ELSE (prod[i - 1] % TwoToThe(drop)) * TwoToThe(DigitBits - drop)
                        + prod[i] \div TwoToThe(drop)]
      lost == prod[Len(prod)] % TwoToThe(drop)
      up == /\ drop > 0
            /\ \/ 2 * lost > TwoToThe(drop)
               \/ 2 * lost = TwoToThe(drop) /\ kept[Len(kept)] % 2 = 1
  IN Rounded(kept, x.exp + drop, up)

\* x.toFixed(1), in tenths, for 0 < x <= 100: the integer n nearest to the
\* exact value of 10 * x, the larger one when two are as near.  The first
\* three digits of 10 times the significand hold every bit down to
\* 2^(-below) of 10 * x, which is past the first bit after the point
NumberToFixed1(x) ==
  LET prod == TimesFrom(x.digits, Len(x.digits), 10, 0)
      top == (prod[1] * Base + prod[2]) * Base + prod[3]
      below == 2 * DigitBits - x.exp
      whole == IF below <= 30 THEN top \div TwoToThe(below) ELSE 0
      half == IF below <= 31 THEN (top \div TwoToThe(below - 1)) % 2 ELSE 0
  IN whole + half

\* parseFloat(((P / T) * 100).toFixed(1)), in tenths of a percent, for
\* 0 <= P <= T and T > 0.  The quotient and the product are rounded as the
\* binary floating point operations round them, so that a value halfway
\* between two tenths is rounded down when the product falls below it
\* (23 of 80: 28.749999999999996, "28.7") and up otherwise (1 of 16: "6.3")
ToFixed1(P, T) ==
  IF P = 0 THEN 0 ELSE NumberToFixed1(DoubleTimes(DoubleDivide(P, T), 100))

AverageNoGuard(P, T) == IF T > 0 THEN ToFixed1(P, T) ELSE 100

Average(P, T) == IF T > 0 THEN ToFixed1(P, T) ELSE 0

Perfect(s) == s.present = s.total /\ s.total > 0

BelowOrAt75(s, pct) ==
  /\ s.total > 0
  /\ IF pct = 75 THEN s.present * 100 <= 75 * s.total ELSE s.present * 100 < pct * s.total

\* s.total > 0 && (s.present / s.total) * 100 < pct; the quotient is exact in
\* binary floating point whenever it equals 50 or 75
Below(s, pct) == s.total > 0 /\ s.present * 100 < pct * s.total

\* the body of the 200 answer, from the selected records
Report(studs, records) ==
  LET stats == Accumulate(<<>>, PopulatedEntries(studs, records))
      totalPresent == SumPresent(stats, DOMAIN stats)
      total == SumTotal(stats, DOMAIN stats)
  IN [status |-> 200,
      average |-> Average(totalPresent, total),
      perfectCount |-> Cardinality({k \in DOMAIN stats : Perfect(stats[k])}),
      below75Count |-> Cardinality({k \in DOMAIN stats : Below(stats[k], 75)}),
      chronicAbsenceCount |-> Cardinality({k \in DOMAIN stats : Below(stats[k], 50)}),
      days |-> Len(records),
      totalStudentsTracked |-> Cardinality(DOMAIN stats)]

\* e.studentId._id throws when populate left null
Dereferences(es) == \A i \in DOMAIN es : es[i].studentId # 0

\* the query on the roster for the students the found records name, then the
\* aggregation and the answer
SummaryPopulate(p) ==
  /\ pc[p] = "populate"
  /\ resp' = [resp EXCEPT ![p] =
                IF Dereferences(PopulatedEntries(students, req[p].records))
                  THEN Report(students, req[p].records)
                  ELSE Err500("Failed to generate report", "TypeError")]
  /\ pc' = [pc EXCEPT ![p] = "idle"]
  /\ UNCHANGED <<teachers, students, ledger, req>>

(***************************************************************************)
(* POST /dev/seed (no auth): three deleteMany({}), the demo teacher, the   *)
(* demo students                                                           *)
(***************************************************************************)
DemoEmail == "teacher@demo.com"

\* the demo password is the same text as the email
DemoPassword == "teacher@demo.com"

DemoTeacher == [name |-> "Demo Teacher", email |-> DemoEmail, password |-> Hash(DemoPassword)]

DemoStudents ==
  <<[roll |-> 1, name |-> "Aarav Kumar", className |-> "Class 5-A"],
    [roll |-> 2, name |-> "Diya Patel", className |-> "Class 5-A"],
    [roll |-> 3, name |-> "Arjun Singh", className |-> "Class 5-A"],
    [roll |-> 4, name |-> "Ananya Sharma", className |-> "Class 5-A"],
    [roll |-> 5, name |-> "Kabir Verma", className |-> "Class 5-A"],
    [roll |-> 6, name |-> "Zara Khan", className |-> "Class 5-A"],
    [roll |-> 7, name |-> "Vivaan Reddy", className |-> "Class 5-A"],
    [roll |-> 8, name |-> "Ishita Gupta", className |-> "Class 5-A"],
    [roll |-> 9, name |-> "Aditya Mehta", className |-> "Class 5-A"],
    [roll |-> 10, name |-> "Sara Ali", className |-> "Class 5-A"],
    [roll |-> 1, name |-> "Rohan Joshi", className |-> "Class 6-B"],
    [roll |-> 2, name |-> "Priya Nair", className |-> "Class 6-B"],
    [roll |-> 3, name |-> "Yash Pandey", className |-> "Class 6-B"],
    [roll |-> 4, name |-> "Kavya Rao", className |-> "Class 6-B"],
    [roll |-> 5, name |-> "Om Prakash", className |-> "Class 6-B"]>>

\* the handler up to its first await: Teacher.deleteMany({}) is sent; upTo
\* is the last document the command is sure to meet
SeedRequest(p) ==
  /\ pc[p] = "idle"
  /\ req' = [req EXCEPT ![p] =
               [op |-> "seed", upTo |-> Len(teachers), teacherId |-> 0, inserted |-> 0]]
  /\ resp' = [resp EXCEPT ![p] = NoResp]
  /\ pc' = [pc EXCEPT ![p] = "seedTeachers"]
  /\ UNCHANGED <<teachers, students, ledger>>

\* deleteMany({}) on the collection p's seed has reached: it removes one
\* document at a time; it ends once every document that was there when it was
\* sent is gone, and may or may not have met the ones inserted since.  When it
\* ends the handler sends the next command.
SeedDeleteMany(p) ==
  /\ pc[p] \in {"seedTeachers", "seedStudents", "seedLedger"}
  /\ LET coll == CASE pc[p] = "seedTeachers" -> teachers
                   [] pc[p] = "seedStudents" -> students
                   [] OTHER -> ledger
     IN \/ /\ Live(coll) # {}
           /\ LET after == [coll EXCEPT ![FirstOf(Live(coll))] = Deleted] IN
                /\ teachers' = IF pc[p] = "seedTeachers" THEN after ELSE teachers
                /\ students' = IF pc[p] = "seedStudents" THEN after ELSE students
                /\ ledger' = IF pc[p] = "seedLedger" THEN after ELSE ledger
           /\ UNCHANGED <<pc, req, resp>>
        \/ /\ \A i \in Live(coll) : i > req[p].upTo
           /\ pc' = [pc EXCEPT ![p] = CASE pc[p] = "seedTeachers" -> "seedStudents"
                                        [] pc[p] = "seedStudents" -> "seedLedger"
                                        [] OTHER -> "seedCreate"]
           /\ req' = [req EXCEPT ![p].upTo = CASE pc[p] = "seedTeachers" -> Len(students)
                                               [] pc[p] = "seedStudents" -> Len(ledger)
                                               [] OTHER -> 0]
           /\ UNCHANGED <<teachers, students, ledger, resp>>

\* bcrypt.hash, then Teacher.create of the demo teacher, which the unique
\* index on email may refuse; the catch block answers 500
SeedCreateTeacher(p) ==
  /\ pc[p] = "seedCreate"
  /\ IF EmailIndexAllows(teachers, DemoEmail)
       THEN /\ teachers' = Append(teachers, DemoTeacher)
            /\ req' = [req EXCEPT ![p].teacherId = Len(teachers) + 1]
            /\ pc' = [pc EXCEPT ![p] = "seedInsert"]
            /\ resp' = resp
       ELSE /\ resp' = [resp EXCEPT ![p] =
                          Err500("Failed to seed demo data", "E11000 duplicate key")]
            /\ pc' = [pc EXCEPT ![p] = "idle"]
            /\ UNCHANGED <<teachers, req>>
  /\ UNCHANGED <<students, ledger>>

\* Student.insertMany(students), one document at a time, then the answer
SeedInsertMany(p) ==
  /\ pc[p] = "seedInsert"
  /\ students' = Append(students, DemoStudents[req[p].inserted + 1])
  /\ req' = [req EXCEPT ![p].inserted = @ + 1]
  /\ IF req[p].inserted + 1 = Len(DemoStudents)
       THEN /\ pc' = [pc EXCEPT ![p] = "idle"]
            /\ resp' = [resp EXCEPT ![p] =
                          [status |-> 200, message |-> "Demo data seeded successfully",
                           teacher |-> [name |-> DemoTeacher.name, email |-> DemoEmail,
                                        id |-> req[p].teacherId],
                           studentsCreated |-> Len(DemoStudents),
                           credentials |-> [email |-> DemoEmail, password |-> DemoPassword]]]
       ELSE UNCHANGED <<pc, resp>>
  /\ UNCHANGED <<teachers, ledger>>

(***************************************************************************)
(* Requests                                                                *)
(***************************************************************************)
GoodHeader == <<"Bearer", "good">>

\* no header, an empty one, no token after the scheme, an empty token, a
\* token after two spaces, a token alone, a token not signed with the
\* secret, an expired token
RefusedHeaders ==
  {<<>>, <<"">>, <<"Bearer">>, <<"Bearer", "">>, <<"Bearer", "", "good">>, <<"good">>,
   <<"Bearer", "forged">>, <<"Bearer", "expired">>}

Present1 == [studentId |-> 1, present |-> "true", remarks |-> Undefined]
Late2 == [studentId |-> 2, present |-> "false", remarks |-> "late"]
NoStudentId == [studentId |-> MissingId, present |-> "true", remarks |-> Undefined]
PresentText == [studentId |-> 1, present |-> "yes", remarks |-> Undefined]
BadObjectId == [studentId |-> UncastableId, present |-> "false", remarks |-> Undefined]

Body(date, className, kind, entries) ==
  [date |-> date, className |-> className, kind |-> kind, entries |-> entries]

Asha == [className |-> "A", roll |-> 1, name |-> "Asha"]
Ravi == [className |-> "A", roll |-> 2, name |-> "Ravi"]
AshaRenamed == [className |-> "A", roll |-> 1, name |-> "Asha K"]

\* the mark requests in flight, each of which may insert one record
InFlightMarks == Cardinality({p \in Procs : pc[p] \in {"find", "insert"}})

\* the operations of p's bulkWrite the store has not run yet
Pending(p) == IF pc[p] \in {"upsertFind", "upsertInsert"} THEN Len(req[p].ops) ELSE 0

\* the requests in flight that may insert one teacher
InFlightTeachers ==
  Cardinality({p \in Procs :
                 pc[p] \in {"create", "seedTeachers", "seedStudents", "seedLedger", "seedCreate"}})

\* bounds on what the clients send: a request is sent only when the
\* collection it may add to has room for what is already on its way
RoomForMark(date, className, bound) ==
  Len(ledger) + InFlightMarks < bound \/ Matching(ledger, date, className) # {}

RoomForStudents(batch) ==
  Len(students) + Pending(1) + Pending(2) + Len(batch) <= MaxStudents

RoomForTeacher == Len(teachers) + InFlightTeachers < MaxTeachers

(***************************************************************************)
(* Two mark requests in flight                                             *)
(***************************************************************************)
RaceBodies ==
  {Body(d, "A", "array", e) :
     d \in {<<9>>, <<1, 0>>}, e \in SeqsUpTo({Present1, Late2}, MaxRaceEntries)}
    \cup {Body(<<9>>, "A", "array", e) :
            e \in {<<NoStudentId>>, <<Present1, PresentText>>, <<BadObjectId>>, <<Null>>}}
    \cup {Body(<<>>, "A", "array", <<Present1>>), Body(<<9>>, "", "array", <<Present1>>),
          Body(<<9>>, "A", "falsy", <<>>), Body(<<9>>, "A", "notIterable", <<>>)}

RaceRequests ==
  {[authHeader |-> GoodHeader, body |-> b] : b \in RaceBodies}
    \cup {[authHeader |-> h, body |-> Body(<<9>>, "A", "array", <<Present1>>)] :
            h \in {<<>>, <<"Bearer">>, <<"Bearer", "forged">>}}

Next ==
  \/ \E p \in Procs, r \in RaceRequests :
       /\ \/ Len(ledger) < MaxRecords
          \/ Matching(ledger, r.body.date, r.body.className) # {}
       /\ MarkRequest(p, r.authHeader, r.body.date, r.body.className,
                      r.body.kind, r.body.entries)
  \/ \E p \in Procs : StoreFind(p)
  \/ \E p \in Procs : StoreInsert(p)

Spec == Init /\ [][Next]_vars

(***************************************************************************)
(* What a second client sends while the first one is being served          *)
(***************************************************************************)
OtherMarks == {Body(<<9>>, "A", "array", <<Late2>>)}

OtherBatches == {<<Ravi>>}

\* the steps of the store and of the handlers after their awaits
Served ==
  \/ \E p \in Procs : StoreFind(p)
  \/ \E p \in Procs : StoreInsert(p)
  \/ \E p \in Procs : UpsertFind(p)
  \/ \E p \in Procs : UpsertInsert(p)
  \/ \E p \in Procs : SummaryPopulate(p)

\* the requests of the second client
OtherClient(bound) ==
  \/ \E b \in OtherMarks :
       /\ RoomForMark(b.date, b.className, bound)
       /\ MarkRequest(2, GoodHeader, b.date, b.className, b.kind, b.entries)
  \/ \E b \in OtherBatches :
       /\ RoomForStudents(b)
       /\ StudentsRequest(2, GoodHeader, TRUE, b)

(***************************************************************************)
(* One client marking two days of class A and one of class B, saving the   *)
(* roster and asking for summaries, with a second client in its way        *)
(***************************************************************************)
SeqDates == {<<9>>, <<1, 0>>}

SeqEntryInputs ==
  {[studentId |-> i, present |-> b, remarks |-> Undefined] : i \in 1..MaxStudents, b \in {"true", "false"}}

SeqBodies ==
  {Body(d, "A", "array", e) : d \in SeqDates, e \in SeqsUpTo({Present1, Late2}, MaxEntries)}
    \cup {Body(<<9>>, "B", "array", <<Present1>>)}
    \cup {Body(<<9>>, "A", "array", e) :
            e \in {<<NoStudentId>>, <<Present1, PresentText>>, <<PresentText, Present1>>,
                   <<Present1, NoStudentId>>, <<BadObjectId>>, <<Null>>, <<Present1, Null>>,
                   <<Null, NoStudentId>>}}
    \cup {Body(<<>>, "A", "array", <<Present1>>), Body(<<9>>, "", "array", <<Present1>>),
          Body(<<9>>, "A", "falsy", <<>>), Body(<<9>>, "A", "notIterable", <<>>)}

SeqMarks ==
  {[authHeader |-> GoodHeader, body |-> b] : b \in SeqBodies}
    \cup {[authHeader |-> <<"Bearer", "forged">>, body |-> Body(<<9>>, "A", "array", <<Present1>>)]}

SeqBatches ==
  {[authHeader |-> GoodHeader, isArray |-> TRUE, batch |-> b] : b \in {<<Asha>>, <<Asha, Ravi>>}}
    \cup {[authHeader |-> GoodHeader, isArray |-> FALSE, batch |-> <<>>],
          [authHeader |-> <<>>, isArray |-> TRUE, batch |-> <<Asha>>]}

SeqQueries ==
  {[authHeader |-> GoodHeader, className |-> "A", from |-> f, to |-> t] :
     f \in SeqDates, t \in SeqDates}
    \cup {[authHeader |-> GoodHeader, className |-> "B", from |-> <<9>>, to |-> <<9>>],
          [authHeader |-> GoodHeader, className |-> "", from |-> <<9>>, to |-> <<9>>],
          [authHeader |-> <<"Bearer">>, className |-> "A", from |-> <<9>>, to |-> <<9>>]}

NextSeq ==
  \/ \E r \in SeqMarks :
       /\ RoomForMark(r.body.date, r.body.className, MaxRecords)
       /\ MarkRequest(1, r.authHeader, r.body.date, r.body.className, r.body.kind,
                      r.body.entries)
  \/ \E r \in SeqBatches :
       /\ RoomForStudents(r.batch)
       /\ StudentsRequest(1, r.authHeader, r.isArray, r.batch)
  \/ \E q \in SeqQueries : SummaryRequest(1, q.authHeader, q.className, q.from, q.to)
  \/ OtherClient(MaxRecords)
  \/ Served

SpecSeq == Init /\ [][NextSeq]_vars

(***************************************************************************)
(* A class marked day by day: the roster is saved, each day's attendance   *)
(* is marked, for one or both students, and summaries are asked in         *)
(* between, with a second client in the way                                *)
(***************************************************************************)
\* the text of the n-th day's date: "8", "9", "10", ...
DayDate(n) == IF n + 7 < 10 THEN <<n + 7>> ELSE <<(n + 7) \div 10, (n + 7) % 10>>

\* the ranges asked: as texts "10" < "11" < "8" < "9", so that "10" to "9"
\* holds every day, "8" to "9" the first two, "10" to the last day the days
\* from the third on, and "8" to the last day none
ReportQueries ==
  {[authHeader |-> GoodHeader, className |-> "A", from |-> DayDate(f), to |-> DayDate(t)] :
     f \in {1, 3}, t \in {2, MaxDays}}
    \cup {[authHeader |-> GoodHeader, className |-> "B", from |-> DayDate(1), to |-> DayDate(2)]}

\* what the teacher marks on a day: one student, or the first student and
\* then the second
ReportEntryLists ==
  {e \in SeqsUpTo(SeqEntryInputs, MaxEntries) \ {<<>>} :
     \A i \in 1..Len(e), j \in 1..Len(e) : i < j => e[i].studentId < e[j].studentId}

NextReport ==
  \/ /\ RoomForStudents(<<Asha, Ravi>>)
     /\ StudentsRequest(1, GoodHeader, TRUE, <<Asha, Ravi>>)
  \/ \E e \in ReportEntryLists :
       /\ Len(ledger) + InFlightMarks < MaxDays
       /\ MarkRequest(1, GoodHeader, DayDate(Len(ledger) + 1), "A", "array", e)
  \/ \E q \in ReportQueries : SummaryRequest(1, q.authHeader, q.className, q.from, q.to)
  \/ OtherClient(MaxDays)
  \/ Served

SpecReport == Init /\ [][NextReport]_vars

(***************************************************************************)
(* Summaries of a class after many days: the roster holds two students and *)
(* the class was marked day by day, MaxEntries entries a day naming the    *)
(* two students in turn, the first entries present and the later ones      *)
(* absent                                                                  *)
(***************************************************************************)
\* the k-th entry marked, as stored
MarkedEntry(k, present) ==
  CastEntry([studentId |-> 1 + (k % 2), present |-> IF k <= present THEN "true" ELSE "false",
             remarks |-> Undefined])

\* the ledger after these marks: total entries, the first present of them
\* present
MarkedLedger(present, total) ==
  [d \in 1..((total + MaxEntries - 1) \div MaxEntries) |->
     [date |-> DayDate(d), className |-> "A",
      entries |-> [j \in 1..(IF d * MaxEntries <= total THEN MaxEntries
                             ELSE total - (d - 1) * MaxEntries) |->
                     MarkedEntry((d - 1) * MaxEntries + j, present)]]]

InitAverage ==
  /\ teachers = <<>>
  /\ students = <<Asha, Ravi>>
  /\ \E total \in 1..MaxTotal : \E present \in 0..total : ledger = MarkedLedger(present, total)
  /\ pc = [p \in Procs |-> "idle"]
  /\ req = [p \in Procs |-> NoReq]
  /\ resp = [p \in Procs |-> NoResp]

\* every day ("8", "9", "10", ... lie between "1" and "9" in string order),
\* or the days from the third on, whose dates begin with 1 to 4
AverageQueries ==
  {[authHeader |-> GoodHeader, className |-> "A", from |-> <<1>>, to |-> t] : t \in {<<9>>, <<5>>}}

NextAverage ==
  \/ \E q \in AverageQueries : SummaryRequest(1, q.authHeader, q.className, q.from, q.to)
  \/ SummaryPopulate(1)

SpecAverage == InitAverage /\ [][NextAverage]_vars

(***************************************************************************)
(* The four protected operations under every kind of Authorization header  *)
(***************************************************************************)
\* the refused headers, the usual one, and a good token after another scheme
\* word (the middleware does not look at the word)
AuthHeaders == RefusedHeaders \cup {GoodHeader, <<"Token", "good">>}

AuthBodies ==
  {Body(d, "A", "array", e) : d \in SeqDates, e \in SeqsUpTo({Present1, Late2}, MaxRaceEntries)}

AuthMarks == {[authHeader |-> h, body |-> b] : h \in AuthHeaders, b \in AuthBodies}

AuthBatches ==
  {[authHeader |-> h, isArray |-> TRUE, batch |-> b] :
     h \in AuthHeaders, b \in {<<Asha>>, <<Ravi>>, <<Ravi, Asha>>}}

AuthQueries ==
  {[authHeader |-> h, className |-> "A", from |-> <<1, 0>>, to |-> t] :
     h \in AuthHeaders, t \in SeqDates}

AuthRosterQueries ==
  {[authHeader |-> h, className |-> c] : h \in AuthHeaders, c \in {Undefined, "A", "B"}}

NextAuth ==
  \/ \E r \in AuthMarks :
       /\ RoomForMark(r.body.date, r.body.className, MaxRecords)
       /\ MarkRequest(1, r.authHeader, r.body.date, r.body.className, r.body.kind,
                      r.body.entries)
  \/ \E r \in AuthBatches :
       /\ RoomForStudents(r.batch)
       /\ StudentsRequest(1, r.authHeader, r.isArray, r.batch)
  \/ \E q \in AuthQueries : SummaryRequest(1, q.authHeader, q.className, q.from, q.to)
  \/ \E q \in AuthRosterQueries : GetStudents(1, q.authHeader, q.className)
  \/ OtherClient(MaxRecords)
  \/ Served

SpecAuth == Init /\ [][NextAuth]_vars

(***************************************************************************)
(* Two teachers saving rosters at the same time                            *)
(***************************************************************************)
RosterBatches ==
  {[authHeader |-> GoodHeader, isArray |-> TRUE, batch |-> b] :
     b \in {<<Asha>>, <<AshaRenamed>>, <<Ravi>>, <<Asha, Ravi>>, <<Asha, AshaRenamed>>}}
    \cup {[authHeader |-> GoodHeader, isArray |-> FALSE, batch |-> <<>>],
          [authHeader |-> <<"Bearer", "expired">>, isArray |-> TRUE, batch |-> <<Asha>>]}

NextRoster ==
  \/ \E p \in Procs, r \in RosterBatches :
       /\ RoomForStudents(r.batch)
       /\ StudentsRequest(p, r.authHeader, r.isArray, r.batch)
  \/ \E p \in Procs : UpsertFind(p)
  \/ \E p \in Procs : UpsertInsert(p)

SpecRoster == Init /\ [][NextRoster]_vars

(***************************************************************************)
(* Registrations arriving at the same time, and the second client seeding  *)
(* the demo data meanwhile                                                 *)
(***************************************************************************)
Registrations ==
  {[name |-> n, email |-> e, password |-> "pw"] : n \in {"Asha", "Ravi"}, e \in {"a@x", DemoEmail}}
    \cup {[name |-> "", email |-> "a@x", password |-> "pw"],
          [name |-> "Asha", email |-> Undefined, password |-> "pw"],
          [name |-> "Asha", email |-> "a@x", password |-> Undefined]}

NextRegister ==
  \/ \E p \in Procs, r \in Registrations :
       /\ RoomForTeacher \/ TeacherWithEmail(teachers, r.email) # {}
       /\ RegisterRequest(p, r.name, r.email, r.password)
  \/ RoomForTeacher /\ SeedRequest(2)
  \/ \E p \in Procs : TeacherCreate(p)
  \/ \E p \in Procs : SeedDeleteMany(p)
  \/ \E p \in Procs : SeedCreateTeacher(p)
  \/ \E p \in Procs : SeedInsertMany(p)

SpecRegister == Init /\ [][NextRegister]_vars

(***************************************************************************)
(* Properties of the Attendance Ledger                                     *)
(***************************************************************************)
SameKey(a, b) == a.date = b.date /\ a.className = b.className

MarkDone(p) == pc[p] = "idle" /\ req[p].op = "mark" /\ resp[p].status = 200

\* this step answers the mark request of p that had reached the store
MarkAnswered(p) == pc[p] \in {"find", "insert"} /\ pc'[p] = "idle"

\* C1: in every reachable state of the concurrent specification the ledger
\* holds at most one record for each (date, className) pair.
OneRecordPerKey ==
  \A i \in Live(ledger) : \A j \in Live(ledger) :
    SameKey(ledger[i], ledger[j]) => i = j

\* a mark whose insert lost a race for its key has completed next to the
\* winner's record
RaceLostAndSettled ==
  \E p \in Procs : MarkDone(p) /\ req[p].retries > 0 /\ Len(ledger) = MaxRecords

\* the last requests of p and q are two mark calls for one key, with
\* different entries, none of them empty, that reached the store and have
\* both been answered
Raced(p, q) ==
  /\ p # q
  /\ \A r \in {p, q} : pc[r] = "idle" /\ req[r].op = "mark" /\ req[r].entries # <<>>
  /\ SameKey(req[p], req[q])
  /\ req[p].entries # req[q].entries

\* whatever the two calls were answered, one record holds the key, with the
\* complete entries of one of the two
RaceLeavesOneRecord ==
  \A p \in Procs : \A q \in Procs :
    Raced(p, q) =>
      \E i \in Live(ledger) :
        /\ Matching(ledger, req[p].date, req[p].className) = {i}
        /\ ledger[i].entries \in {req[p].entries, req[q].entries}

\* C2: of two mark calls for the same key with different valid entries
\* neither ends in an error, and once both have completed exactly one record
\* exists for the key, whose entries are the complete payload of one of the
\* two calls. (A mark call that reached the store is answered an error only
\* when its insert lost a race for the key: the pairs that break this are
\* pairs that ran concurrently on a ledger without a record for the key.)
RaceConverges ==
  /\ \A p \in Procs : \A q \in Procs :
       Raced(p, q) => resp[p].status = 200 /\ resp[q].status = 200
  /\ RaceLeavesOneRecord

\* the call that lost the race was answered 500 and its entries are nowhere
RaceLostAndRefused ==
  \E p \in Procs : \E q \in Procs :
    /\ Raced(p, q) /\ resp[p].status = 500 /\ resp[q].status = 200
    /\ \A i \in Live(ledger) : ledger[i].entries # req[p].entries

\* the entries a payload asks to store, field by field
StoresPayload(stored, payload) ==
  /\ Len(stored) = Len(payload)
  /\ \A i \in DOMAIN payload :
       /\ stored[i].studentId = payload[i].studentId
       /\ stored[i].present = payload[i].present

\* C3: the step of the store that completes a mark leaves exactly one
\* record for its key, whose entries are exactly the entries of that call
\* (nothing of the record it replaced survives) and leaves every other record
\* alone; when the record already had these entries the ledger is the same as
\* before.
ReplaceNotMerge ==
  [][(MarkAnswered(1) /\ resp'[1].status = 200) =>
       LET id == resp'[1].attendanceId
           old == Matching(ledger, req[1].date, req[1].className)
       IN /\ Matching(ledger', req[1].date, req[1].className) = {id}
          /\ StoresPayload(ledger'[id].entries, req[1].entries)
          /\ \A i \in DOMAIN ledger : i # id => ledger'[i] = ledger[i]
          /\ Len(ledger') = IF old = {} THEN Len(ledger) + 1 ELSE Len(ledger)
          /\ (old # {} /\ ledger[id].entries = req[1].entries) => ledger' = ledger]_vars

\* the first client's last mark replaced the entries of the first record,
\* which is older than the second record the same client created, with
\* entries naming one student only
ReplacedExisting ==
  /\ MarkDone(1) /\ Len(ledger) = 2 /\ resp[1].attendanceId = 1
  /\ ~SameKey(ledger[2], [date |-> <<9>>, className |-> "A"])
  /\ ledger[1].entries = CastEntries(<<Present1>>)

\* an entry that is an object without studentId or with a present that is
\* not a boolean
Malformed(entries) ==
  \E i \in DOMAIN entries :
    /\ entries[i] # Null
    /\ entries[i].studentId = MissingId \/ entries[i].present \notin {"true", "false"}

MalformedMarks ==
  {r \in SeqMarks :
     /\ r.authHeader = GoodHeader
     /\ r.body.date # <<>> /\ r.body.className # "" /\ r.body.kind = "array"
     /\ Malformed(r.body.entries)}

\* C4: a mark call with an entry that lacks its studentId or whose present
\* flag is not a boolean, at any position, is answered 400 and leaves the
\* ledger as it was.
MalformedRejected ==
  [][\A r \in MalformedMarks :
       MarkRequest(1, r.authHeader, r.body.date, r.body.className, r.body.kind, r.body.entries)
         => (resp'[1].status = 400 /\ ledger' = ledger)]_vars

\* C14: a mark call with an empty entries sequence writes nothing, so every
\* record of the ledger holds at least one entry, and a summary counts no
\* more days than the entries it aggregates.
RecordsHaveEntries ==
  /\ \A i \in Live(ledger) : ledger[i].entries # <<>>
  /\ (pc[1] = "idle" /\ req[1].op = "summary" /\ resp[1].status = 200) =>
       resp[1].days <= Len(PopulatedEntries(students, req[1].records))

(***************************************************************************)
(* Properties of the auth middleware                                       *)
(***************************************************************************)
\* the requests the middleware refuses
RefusedMarks == {r \in AuthMarks : r.authHeader \in RefusedHeaders}
RefusedBatches == {r \in AuthBatches : r.authHeader \in RefusedHeaders}
RefusedQueries == {q \in AuthQueries : q.authHeader \in RefusedHeaders}
RefusedRosterQueries == {q \in AuthRosterQueries : q.authHeader \in RefusedHeaders}

\* a step of one of the four protected operations on such a request
RefusedStep ==
  \/ \E r \in RefusedMarks :
       MarkRequest(1, r.authHeader, r.body.date, r.body.className, r.body.kind, r.body.entries)
  \/ \E r \in RefusedBatches : StudentsRequest(1, r.authHeader, r.isArray, r.batch)
  \/ \E q \in RefusedQueries : SummaryRequest(1, q.authHeader, q.className, q.from, q.to)
  \/ \E q \in RefusedRosterQueries : GetStudents(1, q.authHeader, q.className)

\* C11: a request to POST /students, GET /students, POST /attendance/mark or
\* GET /reports/summary whose header is missing, carries no token, or carries
\* a token that is not signed or has expired is answered 401 at once with one
\* of the three messages of the middleware, which tell nothing of the stores;
\* no command is sent to a store, and the roster and the ledger are left as
\* they were.
UnauthorizedTouchesNothing ==
  [][RefusedStep =>
       /\ resp'[1].status = 401
       /\ resp'[1].message \in {"No authorization header provided", "No token provided",
                                 "Invalid or expired token"}
       /\ pc'[1] = "idle" /\ req'[1] = NoReq
       /\ students' = students
       /\ ledger' = ledger]_vars

\* an expired or unsigned token was refused while the roster and the ledger
\* held what the refused requests asked to read and to overwrite
RefusedOverData ==
  /\ resp[1] = Err(401, "Invalid or expired token")
  /\ students = <<Asha>>
  /\ Matching(ledger, <<9>>, "A") # {} /\ Matching(ledger, <<1, 0>>, "A") # {}

(***************************************************************************)
(* Properties of the Credential Store                                      *)
(***************************************************************************)
UniqueEmails ==
  \A i \in Live(teachers) : \A j \in Live(teachers) :
    teachers[i].email = teachers[j].email => i = j

\* this step answers a registration of p that names all three fields
RegistrationAnswered(p) ==
  /\ pc'[p] = "idle" /\ req'[p].op = "register"
  /\ pc[p] = "create" \/ (pc[p] = "idle" /\ <<req[p], resp[p]>> # <<req'[p], resp'[p]>>)
  /\ "" \notin {req'[p].name, req'[p].email, req'[p].password}
  /\ Undefined \notin {req'[p].name, req'[p].email, req'[p].password}

\* C13: under every interleaving of registrations, and of the seed, no two
\* teachers share an email; a registration answered while a teacher already
\* has its email, whether the existence check or only the insert met that
\* teacher, is answered 400 with the duplicate-email message and creates no
\* teacher, and any other complete registration is answered 201 and creates
\* exactly its teacher.
OneTeacherPerEmail ==
  [][/\ UniqueEmails'
     /\ \A p \in Procs :
          RegistrationAnswered(p) =>
            IF TeacherWithEmail(teachers, req'[p].email) # {}
              THEN resp'[p] = DuplicateEmail /\ teachers' = teachers
              ELSE /\ resp'[p].status = 201
                   /\ Len(teachers') = Len(teachers) + 1
                   /\ resp'[p].teacher.id = Len(teachers')
                   /\ teachers'[Len(teachers')].email = req'[p].email
                   /\ teachers'[Len(teachers')].name = req'[p].name
                   /\ \A i \in DOMAIN teachers : teachers'[i] = teachers[i]]_vars

\* two registrations of one email under different names both passed the
\* existence check; one was answered 201, the other 400
LostRegistrationRace ==
  \E p \in Procs : \E q \in Procs :
    /\ p # q /\ pc[p] = "idle" /\ pc[q] = "idle"
    /\ req[p].op = "register" /\ req[q].op = "register"
    /\ req[p].email = req[q].email /\ req[p].name # req[q].name
    /\ resp[p].status = 201 /\ resp[q] = DuplicateEmail
    /\ Len(teachers) = 1 /\ teachers[1].name = req[p].name

(***************************************************************************)
(* Properties of the Roster Store                                          *)
(***************************************************************************)
\* C12: under every interleaving of bulk upserts the roster holds at most
\* one student for each (className, roll) pair.
OneStudentPerKey ==
  \A i \in Live(students) : \A j \in Live(students) :
    (students[i].className = students[j].className /\ students[i].roll = students[j].roll)
      => i = j

(***************************************************************************)
(* Properties of the Report Engine, stated on the summary of the first     *)
(* client: the records its query on the ledger found, and its answer       *)
(***************************************************************************)
Min2(a, b) == IF a <= b THEN a ELSE b

\* string order: a is a prefix of b, or a is smaller where they first differ
LexLE(a, b) ==
  \/ Len(a) <= Len(b) /\ \A i \in 1..Len(a) : a[i] = b[i]
  \/ \E k \in 1..Min2(Len(a), Len(b)) : a[k] < b[k] /\ \A i \in 1..(k - 1) : a[i] = b[i]

\* this step is the query on the ledger of a summary
SummaryStarts == pc[1] = "idle" /\ pc'[1] = "populate"

\* this step answers a summary
SummaryAnswers == pc[1] = "populate" /\ pc'[1] = "idle"

\* a summary has been answered, and answered 200
SummaryAsked == pc[1] = "idle" /\ req[1].op = "summary"

SummaryGiven == SummaryAsked /\ resp[1].status = 200

\* the records of the ledger of a class dated within a range
InRange(className, from, to) ==
  {i \in Live(ledger) :
     /\ ledger[i].className = className
     /\ LexLE(from, ledger[i].date)
     /\ LexLE(ledger[i].date, to)}

\* the entries of the records the summary found
InRangeEntries ==
  UNION {{<<i, j>> : j \in DOMAIN req[1].records[i].entries} : i \in DOMAIN req[1].records}

EntryAt(ij) == req[1].records[ij[1]].entries[ij[2]]

Unresolved == {ij \in InRangeEntries : EntryAt(ij).studentId \notin Live(students)}

TotalOf(k) == Cardinality({ij \in InRangeEntries : EntryAt(ij).studentId = k})

PresentOf(k) == Cardinality({ij \in InRangeEntries : EntryAt(ij).studentId = k /\ EntryAt(ij).present})

\* C5: a summary over records holding an entry whose studentId resolves to
\* no student is answered 200.
DanglingReferenceTolerated == (SummaryAsked /\ Unresolved # {}) => resp[1].status = 200

\* C6: in a summary every tracked student's total is the number of found
\* records holding an entry of that student, so no total exceeds days.
TotalIsDaysWithEntry ==
  SummaryGiven =>
    LET stats == Accumulate(<<>>, PopulatedEntries(students, req[1].records))
    IN \A k \in DOMAIN stats :
         /\ stats[k].total = Cardinality({i \in DOMAIN req[1].records : \E ij \in InRangeEntries :
                                            ij[1] = i /\ EntryAt(ij).studentId = k})
         /\ stats[k].total <= resp[1].days

\* C7: the summary is computed from exactly the records of the asked class
\* dated from..to inclusive in string order: these are the records its query
\* finds, days is their number, and the answer is the one computed from these
\* records and the roster alone.
SelectsClassAndRange ==
  [][/\ SummaryStarts =>
          LET q == req'[1]
              Wanted(rec) ==
                rec # Deleted /\ rec.className = q.className
                  /\ LexLE(q.from, rec.date) /\ LexLE(rec.date, q.to)
          IN /\ q.records = SelectSeq(ledger, Wanted)
             /\ Len(q.records) = Cardinality(InRange(q.className, q.from, q.to))
     /\ SummaryAnswers =>
          /\ resp'[1].status = 200 => resp'[1].days = Len(req[1].records)
          /\ resp'[1] = IF Unresolved = {} THEN Report(students, req[1].records)
                                           ELSE Err500("Failed to generate report", "TypeError")]_vars

\* a summary counted one day, the record dated on both bounds of the range,
\* and left out another record of the ledger
CountedOneOfTwo ==
  /\ SummaryGiven /\ resp[1].days = 1 /\ Len(ledger) = 2
  /\ req[1].from = req[1].to /\ req[1].records[1].date = req[1].to

ZeroReport ==
  [status |-> 200, average |-> 0, perfectCount |-> 0, below75Count |-> 0,
   chronicAbsenceCount |-> 0, days |-> 0, totalStudentsTracked |-> 0]

\* C10: when no record of the asked class is dated within the asked range
\* the query of the summary finds no record, and the summary is then answered
\* 200 with every figure 0.
ZeroRange ==
  [][/\ (SummaryStarts /\ InRange(req'[1].className, req'[1].from, req'[1].to) = {})
          => req'[1].records = <<>>
     /\ (SummaryAnswers /\ req[1].records = <<>>) => resp'[1] = ZeroReport]_vars

\* an empty range (from after to) asked of a ledger that holds records of
\* the asked class
EmptyRangeAsked ==
  /\ SummaryGiven /\ req[1].records = <<>> /\ ~LexLE(req[1].from, req[1].to)
  /\ InRange(req[1].className, req[1].from, req[1].to) = {}
  /\ \E i \in Live(ledger) : ledger[i].className = req[1].className
  /\ \E i \in Live(ledger) : \E j \in DOMAIN ledger[i].entries : ledger[i].entries[j].present

\* the aggregation example: three days of one class, asked in full
ExampleAsked ==
  /\ SummaryGiven /\ Len(req[1].records) = 3
  /\ req[1].records[1].entries =
       CastEntries(<<[studentId |-> 1, present |-> "true", remarks |-> Undefined],
                     [studentId |-> 2, present |-> "false", remarks |-> Undefined]>>)
  /\ req[1].records[2].entries =
       CastEntries(<<[studentId |-> 1, present |-> "true", remarks |-> Undefined],
                     [studentId |-> 2, present |-> "true", remarks |-> Undefined]>>)
  /\ req[1].records[3].entries =
       CastEntries(<<[studentId |-> 1, present |-> "false", remarks |-> Undefined]>>)

ThresholdRules ==
  /\ resp[1].perfectCount =
       Cardinality({k \in Live(students) : TotalOf(k) > 0 /\ PresentOf(k) = TotalOf(k)})
  /\ resp[1].below75Count =
       Cardinality({k \in Live(students) : TotalOf(k) > 0 /\ 100 * PresentOf(k) < 75 * TotalOf(k)})
  /\ resp[1].chronicAbsenceCount =
       Cardinality({k \in Live(students) : TotalOf(k) > 0 /\ 100 * PresentOf(k) < 50 * TotalOf(k)})

\* C8 as claimed: perfectCount counts the students with present = total and
\* total > 0, below75Count those with total > 0 and 100 * present < 75 * total,
\* chronicAbsenceCount those with total > 0 and 100 * present < 50 * total; a
\* student with no entry in range is in none of them; the aggregation
\* example gives 0, 2 and 1.
ThresholdCountsAsClaimed ==
  SummaryGiven =>
    /\ ThresholdRules
    /\ ExampleAsked =>
         resp[1].perfectCount = 0 /\ resp[1].below75Count = 2 /\ resp[1].chronicAbsenceCount = 1

\* C8, amended: the same three rules; the aggregation example gives
\* perfectCount 0, below75Count 2 and chronicAbsenceCount 0 (student 2, at
\* exactly 50%, is not chronic).
ThresholdCounts ==
  SummaryGiven =>
    /\ ThresholdRules
    /\ ExampleAsked =>
         resp[1].perfectCount = 0 /\ resp[1].below75Count = 2 /\ resp[1].chronicAbsenceCount = 0

\* a summary over four days in which student 1 sits exactly on 75% (three
\* of four) and student 2 exactly on 50% (one of two): student 2 alone is
\* below 75 and nobody is chronic
OnBothThresholds ==
  /\ SummaryGiven /\ Len(req[1].records) = 4
  /\ TotalOf(1) = 4 /\ PresentOf(1) = 3
  /\ TotalOf(2) = 2 /\ PresentOf(2) = 1
  /\ resp[1].perfectCount = 0 /\ resp[1].below75Count = 1 /\ resp[1].chronicAbsenceCount = 0

\* C9: average, in tenths of a percent, is the integer nearest to 1000 * P / T
\* when T > 0 and 0 when T = 0, P being the number of present entries and T
\* the number of entries of the selected records; it lies between 0 and 100.
AverageRounded ==
  SummaryGiven =>
    LET T == Cardinality(InRangeEntries)
        P == Cardinality({ij \in InRangeEntries : EntryAt(ij).present})
        a == resp[1].average
    IN /\ T = 0 => a = 0
       /\ T > 0 => (2 * (a * T - 1000 * P) <= T /\ 2 * (1000 * P - a * T) <= T)
       /\ 0 <= a /\ a <= 1000

\* 23 of 80 entries present: 28.75 lies halfway between two tenths and is
\* reported as 28.7, one of the two nearest
TieRoundedDown ==
  /\ SummaryGiven /\ resp[1].average = 287
  /\ Cardinality(InRangeEntries) = 80
  /\ Cardinality({ij \in InRangeEntries : EntryAt(ij).present}) = 23

====
